---- MODULE Spec2Model ----
(***************************************************************************)
(* A model of src/database.rs of fuzzy_rocks: the DBConnection wrapper     *)
(* around the four RocksDB column families (keys, rec_data, values,        *)
(* variants), the associative merge operator of the variants table and the *)
(* record-count probe.                                                     *)
(*                                                                         *)
(* Table keys (RecordID / KeyGroupID .to_le_bytes(), fingerprints) are     *)
(* kept as the integers they encode: the code only ever does point         *)
(* lookups with them.  Table values are byte sequences, encoded and        *)
(* decoded as bincode does.  usize is UsizeBits wide instead of 64, so     *)
(* that the whole key space can be enumerated.                             *)
(***************************************************************************)
EXTENDS Integers, Sequences, FiniteSets, TLC

VARIABLES
    cfs,        \* names of the column families that currently exist
    keys,       \* "keys" table:      KeyGroupID  -> bytes
    rec_data,   \* "rec_data" table:  RecordID    -> bytes
    values,     \* "values" table:    RecordID    -> bytes
    variants,   \* "variants" table:  fingerprint -> bytes
    last,       \* the most recent call of the connection and what it returned
    probe,      \* the locals of probe_for_max_sequential_key, one loop pass per step
    merge_entry \* one variants key as the engine holds it: value and pending operands

vars == <<cfs, keys, rec_data, values, variants, last, probe, merge_entry>>

----------------------------------------------------------------------------
(* Bounds of the model *)

\* width of usize in bits (64 in the build the code asserts)
UsizeBits == 8

USIZE_MAX == 2^UsizeBits - 1
\* 0xFFFFFFFF in the source: the largest hint whose square fits in usize
HALF_MASK == 2^(UsizeBits \div 2) - 1

\* KeyGroupIDs, variant fingerprints, RecordIDs, raw keys and values in use
MaxKeyGroupID == 1
MaxRecordID == 2
MaxRawKey == 2
MaxValue == 2
\* most merge operands the engine keeps pending on one key
MaxPending == 3

KeyGroupIDs == 0..MaxKeyGroupID
\* two fingerprints: the loops over fingerprints treat each one on its own
Fingerprints == {1, 2}
RecordIDs == 0..MaxRecordID
RawKeys == 1..MaxRawKey
Values == 1..MaxValue

\* Option<T>: None is the empty sequence, Some(x) is <<x>>
None == <<>>
Some(x) == <<x>>

----------------------------------------------------------------------------
(* usize arithmetic.  An operation that leaves 0..USIZE_MAX wraps (release  *)
(* build) and is recorded: a debug build panics at that point.             *)

Wrap(x) == x % (USIZE_MAX + 1)
Fits(x) == x >= 0 /\ x <= USIZE_MAX

----------------------------------------------------------------------------
(* probe_for_max_sequential_key *)

\* the lookup done with a 1-based key
ProbeLookup_one_based(table, cur_val) == (cur_val + 1) \in DOMAIN table

\* db.get_pinned_cf(cf, cur_val.to_le_bytes()) is Some(_)
ProbeLookup(table, cur_val) == cur_val \in DOMAIN table

\* the hint squared whatever its size
guess_max_seed_unguarded(starting_hint) ==
    IF starting_hint < 1 THEN 1 ELSE starting_hint * starting_hint

\* lines 505-511: the seed of guess_max
guess_max_seed(starting_hint) ==
    IF starting_hint > HALF_MASK THEN USIZE_MAX
    ELSE IF starting_hint < 1 THEN 1
    ELSE starting_hint * starting_hint

\* lines 500-513: the locals on entry to the loop
ProbeEntry(starting_hint) ==
    [ pc |-> "loop",
      starting_hint |-> starting_hint,
      min |-> 0,
      max |-> USIZE_MAX,
      guess_max |-> Wrap(guess_max_seed(starting_hint)),
      cur_val |-> starting_hint,
      lookups |-> 0,
      overflow |-> ~Fits(guess_max_seed(starting_hint)),
      result |-> None ]

\* no probe is running
ProbeIdle == [ProbeEntry(0) EXCEPT !.pc = "idle"]

\* return Ok(cur_val), lines 518 and 535
ProbeReturn(p) == [p EXCEPT !.pc = "done", !.result = Some(p.cur_val)]

\* the midpoint rounded up
next_cur_val_rounds_up(guess_max, min) == Wrap((Wrap(guess_max - min + 1) \div 2) + min)

\* line 539
next_cur_val(guess_max, min) == Wrap((Wrap(guess_max - min) \div 2) + min)

\* guess_max doubled without the test against max / 2
grow_guess_max_unchecked(guess_max, max) == guess_max * 2

\* lines 524-528
grow_guess_max(guess_max, max) ==
    IF guess_max < max \div 2 THEN guess_max * 2 ELSE max

\* lines 521-528 and 539: the key is present
ProbeHit(p) ==
    LET min1 == p.cur_val + 1
        g1   == grow_guess_max(p.guess_max, p.max)
    IN  [p EXCEPT !.min = Wrap(min1),
                  !.guess_max = Wrap(g1),
                  !.cur_val = next_cur_val(Wrap(g1), Wrap(min1)),
                  !.lookups = p.lookups + 1,
                  !.overflow = p.overflow \/ ~Fits(min1) \/ ~Fits(g1)
                                 \/ ~Fits(Wrap(g1) - Wrap(min1)) ]

\* lines 529-537 and 539: the key is absent
ProbeMiss(p) ==
    LET q == [p EXCEPT !.max = p.cur_val,
                       !.guess_max = p.cur_val,
                       !.lookups = p.lookups + 1]
    IN  IF q.max = q.min
        THEN ProbeReturn(q)
        ELSE [q EXCEPT !.cur_val = next_cur_val(q.guess_max, q.min),
                       !.overflow = p.overflow \/ ~Fits(q.guess_max - q.min)]

\* lines 514-540: one pass of the loop
ProbePass(table, p) ==
    IF p.max = p.min THEN ProbeReturn(p)
    ELSE IF ProbeLookup(table, p.cur_val) THEN ProbeHit(p)
    ELSE ProbeMiss(p)

RECURSIVE ProbeRun(_, _)
\* the loop of lines 514-540, run to its return
ProbeRun(table, p) ==
    IF p.pc = "done" THEN p ELSE ProbeRun(table, ProbePass(table, p))

\* lines 495-541
probe_for_max_sequential_key(table, starting_hint) ==
    ProbeRun(table, ProbeEntry(starting_hint)).result[1]

----------------------------------------------------------------------------
(* bincode, as the code configures it (little endian; fixint or varint) *)

RECURSIVE Flatten(_)
Flatten(ss) == IF ss = <<>> THEN <<>> ELSE Head(ss) \o Flatten(Tail(ss))

RECURSIVE LeBytes(_, _)
\* the n low bytes of u, least significant first
LeBytes(u, n) == IF n = 0 THEN <<>> ELSE <<u % 256>> \o LeBytes(u \div 256, n - 1)

RECURSIVE LeValue(_)
LeValue(bytes) ==
    IF bytes = <<>> THEN 0 ELSE Head(bytes) + 256 * LeValue(Tail(bytes))

\* with_fixint_encoding: a usize / KeyGroupID is a u64, 8 bytes
FixintEnc(u) == LeBytes(u, 8)

\* with_varint_encoding: below 251 one byte, else the marker 251 and a u16
VarintEnc(u) == IF u < 251 THEN <<u>> ELSE <<251>> \o LeBytes(u, 2)

\* the orders a HashSet may iterate (and so serialize) its elements in
Orders(S) ==
    {o \in [1..Cardinality(S) -> S] : \A i, j \in DOMAIN o : i # j => o[i] # o[j]}

SeqToSet(s) == {s[i] : i \in DOMAIN s}

\* vec_coder.serialize(&Vec<KeyGroupID>): u64 length, then the elements
SerializeVecFixint(v) ==
    FixintEnc(Len(v)) \o Flatten([i \in DOMAIN v |-> FixintEnc(v[i])])

\* vec_coder.serialize(&HashSet<KeyGroupID>): any iteration order
SerializeSetFixint(S) == {SerializeVecFixint(o) : o \in Orders(S)}

\* bincode_vec_fixint_len: the u64 length prefix of a fixint vec
bincode_vec_fixint_len(bytes) == LeValue(SubSeq(bytes, 1, 8))

\* bincode_vec_iter::<KeyGroupID>: the 8-byte element slices after the prefix
bincode_vec_iter(bytes) ==
    [i \in 1..bincode_vec_fixint_len(bytes) |-> SubSeq(bytes, 8 * i + 1, 8 * i + 8)]

\* the ids of a fixint vec, in stored order
DeserializeVecFixint(bytes) ==
    [i \in 1..LeValue(SubSeq(bytes, 1, 8)) |-> LeValue(SubSeq(bytes, 8 * i + 1, 8 * i + 8))]

\* vec_coder.deserialize::<HashSet<KeyGroupID>>: duplicates collapse
DeserializeSetFixint(bytes) ==
    {LeValue(SubSeq(bytes, 8 * i + 1, 8 * i + 8)) :
        i \in 1..LeValue(SubSeq(bytes, 1, 8))}

\* record_coder.serialize of a sequence of small integers (u8 keys, group
\* indices below 251): varint length, then one byte per element
SerializeVecVarint(v) == VarintEnc(Len(v)) \o Flatten([i \in DOMAIN v |-> VarintEnc(v[i])])

\* record_coder.serialize(&HashSet<K>): any iteration order
SerializeSetVarint(S) == {SerializeVecVarint(o) : o \in Orders(S)}

\* bincode_u64_le_varint(bytes, &mut skip_bytes): the leading varint
bincode_u64_le_varint(bytes) ==
    IF bytes[1] < 251 THEN bytes[1] ELSE LeValue(SubSeq(bytes, 2, 3))

\* the elements read from the first byte on, the length prefix not skipped
DeserializeVecVarint_prefix_not_skipped(bytes) ==
    [i \in 1..bincode_u64_le_varint(bytes) |-> bytes[i]]

\* record_coder.deserialize::<Vec<K>>: the elements after the length
DeserializeVecVarint(bytes) ==
    LET n   == bincode_u64_le_varint(bytes)
        off == IF bytes[1] < 251 THEN 1 ELSE 3
    IN  [i \in 1..n |-> bytes[off + i]]

----------------------------------------------------------------------------
(* The engine: column families as finite maps *)

KEYS_CF_NAME == "keys"
RECORD_DATA_CF_NAME == "rec_data"
VALUES_CF_NAME == "values"
VARIANTS_CF_NAME == "variants"

AllCFs == {KEYS_CF_NAME, RECORD_DATA_CF_NAME, VALUES_CF_NAME, VARIANTS_CF_NAME}

EmptyTable == <<>>

\* db.get_pinned_cf(cf, key)
get_pinned_cf(table, key) == IF key \in DOMAIN table THEN Some(table[key]) ELSE None

\* a put that keeps the value of a key already present
put_cf_keeps_existing(table, key, value) ==
    [k \in DOMAIN table \cup {key} |-> IF k \in DOMAIN table THEN table[k] ELSE value]

\* db.put_cf(cf, key, value)
put_cf(table, key, value) ==
    [k \in DOMAIN table \cup {key} |-> IF k = key THEN value ELSE table[k]]

\* db.delete_cf(cf, key)
delete_cf(table, key) == [k \in DOMAIN table \ {key} |-> table[k]]

\* what a call returned: Ok, Err("Invalid record_id"), an engine error, or a panic
Ok == "Ok"
InvalidRecordId == "Err(Invalid record_id)"
EngineError == "Err(engine)"
Panic == "panic"

\* `last`: the call, its arguments, what it returned and, in ret, the value
\* in an Ok(value) or what a visitor was called with.  For the calls that
\* return Ok(()), ret keeps what the call did to the table
Call(op, id, arg, result, ret) ==
    [op |-> op, id |-> id, arg |-> arg, result |-> result, ret |-> ret]

----------------------------------------------------------------------------
(* variant_append_merge, lines 445-487 *)

\* the operands unioned, the existing value forgotten
variant_append_merge_drops_existing(existing_val, operands) ==
    SerializeSetFixint(UNION {DeserializeSetFixint(operands[i]) : i \in DOMAIN operands})

\* the possible return values (one per iteration order of the HashSet)
variant_append_merge(existing_val, operands) ==
    LET variant_vec == IF existing_val # None
                       THEN DeserializeSetFixint(existing_val[1])
                       ELSE {}
        extended == variant_vec \cup
                    UNION {DeserializeSetFixint(operands[i]) : i \in DOMAIN operands}
    IN  SerializeSetFixint(extended)

\* new_variant_vec, lines 415-422
new_variant_vec(key_group) == SerializeVecFixint(<<key_group>>)

\* the operand appended to the stored vec, duplicates kept
merge_cf_appends(table, key, operand) ==
    LET old == IF key \in DOMAIN table THEN DeserializeVecFixint(table[key]) ELSE <<>>
    IN  {put_cf(table, key, SerializeVecFixint(old \o DeserializeVecFixint(operand)))}

\* db.merge_cf(cf, key, operand) on a table whose merge operator is
\* variant_append_merge: the tables a later read may see
merge_cf(table, key, operand) ==
    {put_cf(table, key, merged) :
        merged \in variant_append_merge(get_pinned_cf(table, key), <<operand>>)}

----------------------------------------------------------------------------
(* DBConnection *)

\* reset_database with the rec_data column family left alone
ResetSteps_keeps_rec_data ==
    << [drop |-> TRUE,  cf |-> KEYS_CF_NAME],
       [drop |-> TRUE,  cf |-> VALUES_CF_NAME],
       [drop |-> TRUE,  cf |-> VARIANTS_CF_NAME],
       [drop |-> FALSE, cf |-> KEYS_CF_NAME],
       [drop |-> FALSE, cf |-> VALUES_CF_NAME],
       [drop |-> FALSE, cf |-> VARIANTS_CF_NAME] >>

\* lines 67-90: the eight engine calls of reset_database, in order
ResetSteps ==
    << [drop |-> TRUE,  cf |-> KEYS_CF_NAME],
       [drop |-> TRUE,  cf |-> RECORD_DATA_CF_NAME],
       [drop |-> TRUE,  cf |-> VALUES_CF_NAME],
       [drop |-> TRUE,  cf |-> VARIANTS_CF_NAME],
       [drop |-> FALSE, cf |-> KEYS_CF_NAME],
       [drop |-> FALSE, cf |-> RECORD_DATA_CF_NAME],
       [drop |-> FALSE, cf |-> VALUES_CF_NAME],
       [drop |-> FALSE, cf |-> VARIANTS_CF_NAME] >>

\* the first step of reset_database that returns an error: the one the engine
\* fails at (fail_at, 0 for none), or an earlier drop of a missing column family
ResetStop(fail_at) ==
    LET bad == {i \in DOMAIN ResetSteps :
                   \/ i = fail_at
                   \/ ResetSteps[i].drop /\ ResetSteps[i].cf \notin cfs}
    IN  IF bad = {} THEN Len(ResetSteps) + 1
        ELSE CHOOSE i \in bad : \A j \in bad : i <= j

Dropped(stop) == {ResetSteps[i].cf : i \in {j \in 1..(stop - 1) : ResetSteps[j].drop}}
Created(stop) == {ResetSteps[i].cf : i \in {j \in 1..(stop - 1) : ~ResetSteps[j].drop}}

\* lines 67-90
reset_database(fail_at) ==
    LET stop == ResetStop(fail_at)
        after(cf, table) == IF cf \in Dropped(stop) THEN EmptyTable ELSE table
    IN  /\ cfs' = (cfs \ Dropped(stop)) \cup Created(stop)
        /\ keys' = after(KEYS_CF_NAME, keys)
        /\ rec_data' = after(RECORD_DATA_CF_NAME, rec_data)
        /\ values' = after(VALUES_CF_NAME, values)
        /\ variants' = after(VARIANTS_CF_NAME, variants)
        /\ last' = Call("reset_database", 0, {},
                        IF stop > Len(ResetSteps) THEN Ok ELSE EngineError,
                        \* the number of entries erased
                        <<Cardinality(DOMAIN keys \ DOMAIN after(KEYS_CF_NAME, keys))
                          + Cardinality(DOMAIN rec_data
                                        \ DOMAIN after(RECORD_DATA_CF_NAME, rec_data))
                          + Cardinality(DOMAIN values \ DOMAIN after(VALUES_CF_NAME, values))
                          + Cardinality(DOMAIN variants
                                        \ DOMAIN after(VARIANTS_CF_NAME, variants))>>)
        /\ UNCHANGED <<probe, merge_entry>>

\* a call that only returns something
Returns(call) ==
    /\ last' = call
    /\ UNCHANGED <<cfs, keys, rec_data, values, variants, probe, merge_entry>>

\* lines 97-101: what record_count() returns
record_count_result(fail) ==
    IF RECORD_DATA_CF_NAME \notin cfs THEN Call("record_count", 0, {}, Panic, <<>>)
    ELSE IF fail THEN Call("record_count", 0, {}, EngineError, <<>>)
    ELSE Call("record_count", 0, {}, Ok,
              <<probe_for_max_sequential_key(rec_data, 255)>>)

record_count(fail) == Returns(record_count_result(fail))

\* KeyGroupID::from_record_and_idx (key_groups module): the id of the
\* group_idx-th key group of a record, a function of the pair
from_record_and_idx(record_id, group_idx) == [record_id |-> record_id, group_idx |-> group_idx]

\* an empty group list returned as an empty iterator
get_record_key_groups_result_allows_empty(record_id, fail) ==
    LET rec_data_vec_bytes == get_pinned_cf(rec_data, record_id)
        key_groups == DeserializeVecVarint(rec_data_vec_bytes[1])
        ret(result, v) == Call("get_record_key_groups", record_id, {}, result, v)
    IN  IF rec_data_vec_bytes = None THEN ret(InvalidRecordId, <<>>)
        ELSE ret(Ok, [i \in DOMAIN key_groups |->
                         from_record_and_idx(record_id, key_groups[i])])

\* lines 107-132: what get_record_key_groups(record_id) returns
get_record_key_groups_result(record_id, fail) ==
    LET rec_data_vec_bytes == get_pinned_cf(rec_data, record_id)
        key_groups == DeserializeVecVarint(rec_data_vec_bytes[1])
        ret(result, v) == Call("get_record_key_groups", record_id, {}, result, v)
    IN  IF RECORD_DATA_CF_NAME \notin cfs THEN ret(Panic, <<>>)
        ELSE IF fail THEN ret(EngineError, <<>>)
        ELSE IF rec_data_vec_bytes = None THEN ret(InvalidRecordId, <<>>)
        ELSE IF key_groups # <<>>
             THEN ret(Ok, [i \in DOMAIN key_groups |->
                              from_record_and_idx(record_id, key_groups[i])])
        ELSE ret(InvalidRecordId, <<>>)

get_record_key_groups(record_id, fail) ==
    Returns(get_record_key_groups_result(record_id, fail))

\* an empty list taken as the removal of the record
put_record_key_groups_empty_deletes(record_id, key_groups_vec, fail) ==
    LET ok == RECORD_DATA_CF_NAME \in cfs /\ ~fail
    IN  /\ rec_data' = IF ~ok THEN rec_data
                       ELSE IF key_groups_vec = <<>> THEN delete_cf(rec_data, record_id)
                       ELSE put_cf(rec_data, record_id, SerializeVecVarint(key_groups_vec))
        /\ last' = Call("put_record_key_groups", record_id, key_groups_vec,
                        IF RECORD_DATA_CF_NAME \notin cfs THEN Panic
                        ELSE IF fail THEN EngineError ELSE Ok, <<>>)
        /\ UNCHANGED <<cfs, keys, values, variants, probe, merge_entry>>

\* lines 137-153
put_record_key_groups(record_id, key_groups_vec, fail) ==
    LET ok == RECORD_DATA_CF_NAME \in cfs /\ ~fail
    IN  /\ rec_data' = IF ok
                       THEN put_cf(rec_data, record_id, SerializeVecVarint(key_groups_vec))
                       ELSE rec_data
        /\ last' = Call("put_record_key_groups", record_id, key_groups_vec,
                        IF RECORD_DATA_CF_NAME \notin cfs THEN Panic
                        ELSE IF fail THEN EngineError ELSE Ok, <<>>)
        /\ UNCHANGED <<cfs, keys, values, variants, probe, merge_entry>>

\* lines 158-192: what get_keys_in_group(key_group) returns
get_keys_in_group_result(key_group, fail) ==
    LET keys_vec_bytes == get_pinned_cf(keys, key_group)
        keys_vec == DeserializeVecVarint(keys_vec_bytes[1])
        ret(result, v) == Call("get_keys_in_group", key_group, {}, result, v)
    IN  IF KEYS_CF_NAME \notin cfs THEN ret(Panic, <<>>)
        ELSE IF fail THEN ret(EngineError, <<>>)
        ELSE IF keys_vec_bytes = None THEN ret(InvalidRecordId, <<>>)
        ELSE IF keys_vec # <<>> THEN ret(Ok, keys_vec)
        ELSE ret(InvalidRecordId, <<>>)

get_keys_in_group(key_group, fail) == Returns(get_keys_in_group_result(key_group, fail))

\* the length of the entry in bytes returned for the element count
keys_count_in_group_result_byte_len(key_group, fail) ==
    LET keys_vec_bytes == get_pinned_cf(keys, key_group)
    IN  IF keys_vec_bytes # None
        THEN Call("keys_count_in_group", key_group, {}, Ok, <<Len(keys_vec_bytes[1])>>)
        ELSE Call("keys_count_in_group", key_group, {}, Panic, <<>>)

\* an absent entry reported as Err("Invalid record_id"), as the gets do
keys_count_in_group_result_err_on_absent(key_group, fail) ==
    LET keys_vec_bytes == get_pinned_cf(keys, key_group)
        ret(result, v) == Call("keys_count_in_group", key_group, {}, result, v)
    IN  IF keys_vec_bytes # None
        THEN ret(Ok, <<bincode_u64_le_varint(keys_vec_bytes[1])>>)
        ELSE ret(InvalidRecordId, <<>>)

\* lines 200-214: what keys_count_in_group(key_group) returns
keys_count_in_group_result(key_group, fail) ==
    LET keys_vec_bytes == get_pinned_cf(keys, key_group)
        ret(result, v) == Call("keys_count_in_group", key_group, {}, result, v)
    IN  IF KEYS_CF_NAME \notin cfs THEN ret(Panic, <<>>)
        ELSE IF fail THEN ret(EngineError, <<>>)
        ELSE IF keys_vec_bytes # None
             THEN ret(Ok, <<bincode_u64_le_varint(keys_vec_bytes[1])>>)
        ELSE ret(Panic, <<>>)

keys_count_in_group(key_group, fail) ==
    Returns(keys_count_in_group_result(key_group, fail))

\* lines 219-236
put_key_group_entry(key_group_id, raw_keys, fail) ==
    /\ \E keys_bytes \in SerializeSetVarint(raw_keys) :
          keys' = IF KEYS_CF_NAME \in cfs /\ ~fail
                  THEN put_cf(keys, key_group_id, keys_bytes)
                  ELSE keys
    /\ last' = Call("put_key_group_entry", key_group_id, raw_keys,
                    IF KEYS_CF_NAME \notin cfs THEN Panic
                    ELSE IF fail THEN EngineError ELSE Ok, <<>>)
    /\ UNCHANGED <<cfs, rec_data, values, variants, probe, merge_entry>>

\* lines 240-245
delete_key_group_entry(key_group, fail) ==
    /\ keys' = IF KEYS_CF_NAME \in cfs /\ ~fail THEN delete_cf(keys, key_group) ELSE keys
    /\ last' = Call("delete_key_group_entry", key_group, {},
                    IF KEYS_CF_NAME \notin cfs THEN Panic
                    ELSE IF fail THEN EngineError ELSE Ok, <<>>)
    /\ UNCHANGED <<cfs, rec_data, values, variants, probe, merge_entry>>

\* lines 249-277: what get_value(record_id) returns (the bincode build;
\* ValueT is a u8 here, one byte on the wire)
get_value_result(record_id, fail) ==
    LET value_bytes == get_pinned_cf(values, record_id)
        ret(result, v) == Call("get_value", record_id, {}, result, v)
    IN  IF VALUES_CF_NAME \notin cfs THEN ret(Panic, <<>>)
        ELSE IF fail THEN ret(EngineError, <<>>)
        ELSE IF value_bytes # None THEN ret(Ok, <<value_bytes[1][1]>>)
        ELSE ret(InvalidRecordId, <<>>)

get_value(record_id, fail) == Returns(get_value_result(record_id, fail))

\* the delete sent to the rec_data column family
delete_value_in_rec_data(record_id, fail) ==
    /\ rec_data' = IF RECORD_DATA_CF_NAME \in cfs /\ ~fail
                   THEN delete_cf(rec_data, record_id) ELSE rec_data
    /\ last' = Call("delete_value", record_id, {},
                    IF RECORD_DATA_CF_NAME \notin cfs THEN Panic
                    ELSE IF fail THEN EngineError ELSE Ok, <<>>)
    /\ UNCHANGED <<cfs, keys, values, variants, probe, merge_entry>>

\* lines 283-289
delete_value(record_id, fail) ==
    /\ values' = IF VALUES_CF_NAME \in cfs /\ ~fail
                 THEN delete_cf(values, record_id) ELSE values
    /\ last' = Call("delete_value", record_id, {},
                    IF VALUES_CF_NAME \notin cfs THEN Panic
                    ELSE IF fail THEN EngineError ELSE Ok, <<>>)
    /\ UNCHANGED <<cfs, keys, rec_data, variants, probe, merge_entry>>

\* lines 295-324
put_value(record_id, value, fail) ==
    /\ values' = IF VALUES_CF_NAME \in cfs /\ ~fail
                 THEN put_cf(values, record_id, <<value>>) ELSE values
    /\ last' = Call("put_value", record_id, {value},
                    IF VALUES_CF_NAME \notin cfs THEN Panic
                    ELSE IF fail THEN EngineError ELSE Ok,
                    \* the entry the call found
                    get_pinned_cf(values, record_id))
    /\ UNCHANGED <<cfs, keys, rec_data, variants, probe, merge_entry>>

\* lines 333-347.  `done` are the fingerprints the loop got through: all of
\* variant_set, or those before the one an engine call failed at.  ret maps
\* each fingerprint the visitor was called for to the bytes it was called with
visit_variants_result(variant_set, done) ==
    LET ret(result, v) == Call("visit_variants", 0, variant_set, result, v)
    IN  IF VARIANTS_CF_NAME \notin cfs THEN ret(Panic, <<>>)
        ELSE ret(IF done = variant_set THEN Ok ELSE EngineError,
                 [variant \in done \cap DOMAIN variants |-> variants[variant]])

visit_variants(variant_set, done) ==
    /\ done \subseteq variant_set
    /\ Returns(visit_variants_result(variant_set, done))

\* lines 351-362: what visit_exact_variant(variant, closure) does: ret holds
\* the bytes the closure was called with
visit_exact_variant_result(variant, fail) ==
    LET variant_vec_bytes == get_pinned_cf(variants, variant)
        ret(result, v) == Call("visit_exact_variant", 0, {variant}, result, v)
    IN  IF VARIANTS_CF_NAME \notin cfs THEN ret(Panic, <<>>)
        ELSE IF fail THEN ret(EngineError, <<>>)
        ELSE ret(Ok, variant_vec_bytes)

visit_exact_variant(variant, fail) == Returns(visit_exact_variant_result(variant, fail))

\* the entry rebuilt whenever it is not empty (> 0 for > 1)
delete_variant_reference_rebuilds_single(table, key_group, variant) ==
    LET variant_entry_bytes == get_pinned_cf(table, variant)
        ids == DeserializeVecFixint(variant_entry_bytes[1])
        new_vec == SelectSeq(ids, LAMBDA other_key_group_id : other_key_group_id # key_group)
    IN  IF variant_entry_bytes = None THEN table
        ELSE IF Len(ids) > 0
             THEN put_cf(table, variant, SerializeVecFixint(new_vec))
             ELSE delete_cf(table, variant)

\* the entry rebuilt with every id kept (the != test lost)
delete_variant_reference_keeps_all(table, key_group, variant) ==
    LET variant_entry_bytes == get_pinned_cf(table, variant)
        ids == DeserializeVecFixint(variant_entry_bytes[1])
    IN  IF variant_entry_bytes = None THEN table
        ELSE IF Len(ids) > 1
             THEN put_cf(table, variant, SerializeVecFixint(ids))
             ELSE delete_cf(table, variant)

\* lines 376-402: the loop body of delete_variant_references for one fingerprint
delete_variant_reference(table, key_group, variant) ==
    LET variant_entry_bytes == get_pinned_cf(table, variant)
        variant_entry_len == bincode_vec_fixint_len(variant_entry_bytes[1])
        ids == [i \in 1..variant_entry_len |->
                   LeValue(bincode_vec_iter(variant_entry_bytes[1])[i])]
        new_vec == SelectSeq(ids, LAMBDA other_key_group_id : other_key_group_id # key_group)
    IN  IF variant_entry_bytes = None THEN table
        ELSE IF variant_entry_len > 1
             THEN put_cf(table, variant, SerializeVecFixint(new_vec))
             ELSE delete_cf(table, variant)

RECURSIVE delete_variant_references_loop(_, _, _)
\* lines 375-403 over the fingerprints `todo`
delete_variant_references_loop(table, key_group, todo) ==
    IF todo = {} THEN table
    ELSE LET variant == CHOOSE v \in todo : TRUE
         IN  delete_variant_references_loop(
                 delete_variant_reference(table, key_group, variant),
                 key_group, todo \ {variant})

\* lines 367-406.  `done` are the fingerprints the loop got through: all of
\* variant_set, or those before the one an engine call failed at
delete_variant_references(key_group, variant_set, done) ==
    /\ done \subseteq variant_set
    /\ variants' = IF VARIANTS_CF_NAME \in cfs
                   THEN delete_variant_references_loop(variants, key_group, done)
                   ELSE variants
    /\ last' = Call("delete_variant_references", key_group, variant_set,
                    IF VARIANTS_CF_NAME \notin cfs THEN Panic
                    ELSE IF done = variant_set THEN Ok ELSE EngineError,
                    \* the fingerprints whose entry was deleted, and rewritten,
                    \* and those the loop got through
                    << (DOMAIN variants) \ (DOMAIN variants'),
                       {v \in DOMAIN variants' : variants'[v] # variants[v]},
                       done >>)
    /\ UNCHANGED <<cfs, keys, rec_data, values, probe, merge_entry>>

RECURSIVE put_variant_references_loop_overwrites(_, _, _)
\* put_cf used for merge_cf: the entry is overwritten with the singleton
put_variant_references_loop_overwrites(table, key_group, todo) ==
    IF todo = {} THEN {table}
    ELSE LET variant == CHOOSE v \in todo : TRUE
         IN  put_variant_references_loop_overwrites(
                 put_cf(table, variant, new_variant_vec(key_group)),
                 key_group, todo \ {variant})

RECURSIVE put_variant_references_loop(_, _, _)
\* lines 426-430 over the fingerprints `todo`: the tables that may result
put_variant_references_loop(table, key_group, todo) ==
    IF todo = {} THEN {table}
    ELSE LET variant == CHOOSE v \in todo : TRUE
             val_bytes == new_variant_vec(key_group)
         IN  UNION {put_variant_references_loop(t, key_group, todo \ {variant}) :
                        t \in merge_cf(table, variant, val_bytes)}

\* the merges of a call that fails undone before it returns
put_variant_references_rolls_back(key_group, variant_set, done) ==
    /\ done \subseteq variant_set
    /\ IF VARIANTS_CF_NAME \in cfs /\ done = variant_set
       THEN variants' \in put_variant_references_loop(variants, key_group, done)
       ELSE variants' = variants
    /\ last' = Call("put_variant_references", key_group, variant_set,
                    IF VARIANTS_CF_NAME \notin cfs THEN Panic
                    ELSE IF done = variant_set THEN Ok ELSE EngineError,
                    << (DOMAIN variants') \ (DOMAIN variants),
                       (DOMAIN variants') \cap (DOMAIN variants) \cap done,
                       done >>)
    /\ UNCHANGED <<cfs, keys, rec_data, values, probe, merge_entry>>

\* lines 409-433, `done` as in delete_variant_references
put_variant_references(key_group, variant_set, done) ==
    /\ done \subseteq variant_set
    /\ IF VARIANTS_CF_NAME \in cfs
       THEN variants' \in put_variant_references_loop(variants, key_group, done)
       ELSE variants' = variants
    /\ last' = Call("put_variant_references", key_group, variant_set,
                    IF VARIANTS_CF_NAME \notin cfs THEN Panic
                    ELSE IF done = variant_set THEN Ok ELSE EngineError,
                    \* the fingerprints whose entry was created, and merged into,
                    \* and those the loop got through
                    << (DOMAIN variants') \ (DOMAIN variants),
                       (DOMAIN variants') \cap (DOMAIN variants) \cap done,
                       done >>)
    /\ UNCHANGED <<cfs, keys, rec_data, values, probe, merge_entry>>

----------------------------------------------------------------------------
(* One key of the variants column family as the engine holds it: the stored *)
(* value and the merge operands not folded in yet.  The engine calls the    *)
(* merge operator when it likes: on some operands alone (a partial merge)   *)
(* or on the stored value and the oldest operands (a full merge).           *)

\* the two key groups A and B whose references are merged
MergeIDs == {0, 1}

MergeEntryInit == [existing |-> None, operands |-> <<>>, merged |-> {}]

\* merge_cf queues new_variant_vec(key_group), as put_variant_references does
EngineMergeCf(key_group) ==
    /\ Len(merge_entry.operands) < MaxPending
    /\ merge_entry' = [merge_entry EXCEPT
                          !.operands = Append(@, new_variant_vec(key_group)),
                          !.merged = @ \cup {key_group}]
    /\ UNCHANGED <<cfs, keys, rec_data, values, variants, last, probe>>

\* the operator is called with no existing value on operands from..to
EnginePartialMerge(from, to) ==
    /\ from < to
    /\ \E result \in variant_append_merge(None, SubSeq(merge_entry.operands, from, to)) :
          merge_entry' = [merge_entry EXCEPT
              !.operands = SubSeq(@, 1, from - 1) \o <<result>> \o SubSeq(@, to + 1, Len(@))]
    /\ UNCHANGED <<cfs, keys, rec_data, values, variants, last, probe>>

\* the operator is called with the stored value on the oldest n operands
EngineFullMerge(n) ==
    /\ \E result \in variant_append_merge(merge_entry.existing,
                                          SubSeq(merge_entry.operands, 1, n)) :
          merge_entry' = [merge_entry EXCEPT
              !.existing = Some(result),
              !.operands = SubSeq(@, n + 1, Len(@))]
    /\ UNCHANGED <<cfs, keys, rec_data, values, variants, last, probe>>

\* what a read of the key may return
MergeEntryRead ==
    IF merge_entry.operands = <<>> THEN {merge_entry.existing}
    ELSE {Some(r) : r \in variant_append_merge(merge_entry.existing, merge_entry.operands)}

----------------------------------------------------------------------------
(* Specifications *)

\* DBConnection::new, lines 34-64: four empty column families
Init ==
    /\ cfs = AllCFs
    /\ keys = EmptyTable
    /\ rec_data = EmptyTable
    /\ values = EmptyTable
    /\ variants = EmptyTable
    /\ last = Call("new", 0, {}, Ok, <<>>)
    /\ probe = ProbeIdle
    /\ merge_entry = MergeEntryInit

\* the key_groups_vec arguments in use
GroupVecs == {<<>>, <<0>>, <<0, 1>>}

\* the engine either serves every call (Reliable) or may fail any one (Failing)
Reliable == {FALSE}
Failing == BOOLEAN

\* the subsets of F a loop over F may get through
Done(F, fails) == {D \in SUBSET F : D = F \/ TRUE \in fails}

ResetNext(fails) ==
    \E fail_at \in 0..Len(ResetSteps) :
        (fail_at = 0 \/ TRUE \in fails) /\ reset_database(fail_at)

RecordsNext(rids, fails) ==
    \/ \E fail \in fails : record_count(fail)
    \/ \E r \in rids, fail \in fails : get_record_key_groups(r, fail)
    \/ \E r \in rids, v \in GroupVecs, fail \in fails : put_record_key_groups(r, v, fail)

KeysNext(kgs, fails) ==
    \/ \E k \in kgs, fail \in fails : get_keys_in_group(k, fail)
    \/ \E k \in kgs, fail \in fails : keys_count_in_group(k, fail)
    \/ \E k \in kgs, S \in SUBSET RawKeys, fail \in fails : put_key_group_entry(k, S, fail)
    \/ \E k \in kgs, fail \in fails : delete_key_group_entry(k, fail)

ValuesNext(rids, fails) ==
    \/ \E r \in rids, fail \in fails : get_value(r, fail)
    \/ \E r \in rids, v \in Values, fail \in fails : put_value(r, v, fail)
    \/ \E r \in rids, fail \in fails : delete_value(r, fail)

VariantsNext(kgs, fps, fails) ==
    \/ \E F \in SUBSET fps : \E D \in Done(F, fails) : visit_variants(F, D)
    \/ \E f \in fps, fail \in fails : visit_exact_variant(f, fail)
    \/ \E k \in kgs, F \in SUBSET fps : \E D \in Done(F, fails) :
          delete_variant_references(k, F, D)
    \/ \E k \in kgs, F \in SUBSET fps : \E D \in Done(F, fails) :
          put_variant_references(k, F, D)

\* the whole connection, on one record, one key group and one fingerprint,
\* over an engine that may fail any call
Next ==
    \/ ResetNext(Failing)
    \/ RecordsNext({0}, Failing)
    \/ KeysNext({0}, Failing)
    \/ ValuesNext({0}, Failing)
    \/ VariantsNext({0}, {1}, Failing)

Spec == Init /\ [][Next]_vars

\* the variants table alone, every key group and fingerprint
NextVariants == ResetNext(Reliable) \/ VariantsNext(KeyGroupIDs, Fingerprints, Reliable)
SpecVariants == Init /\ [][NextVariants]_vars

\* the variants table alone over an engine that may fail any call of a loop
NextVariantsFail == ResetNext(Reliable) \/ VariantsNext(KeyGroupIDs, Fingerprints, Failing)
SpecVariantsFail == Init /\ [][NextVariantsFail]_vars

\* the whole connection with callers that write RecordIDs in order: a
\* put_record_key_groups is of a stored id or of the next free one
DenseRecordsNext(fails) ==
    \/ \E fail \in fails : record_count(fail)
    \/ \E r \in RecordIDs, fail \in fails : get_record_key_groups(r, fail)
    \/ \E r \in RecordIDs, v \in {<<>>, <<0>>}, fail \in fails :
          /\ r <= Cardinality(DOMAIN rec_data)
          /\ put_record_key_groups(r, v, fail)
NextDense ==
    \/ ResetNext(Reliable)
    \/ DenseRecordsNext(Failing)
    \/ KeysNext({0}, Reliable)
    \/ ValuesNext({0}, Reliable)
    \/ VariantsNext({0}, {1}, Reliable)
SpecDense == Init /\ [][NextDense]_vars

\* the rec_data table alone, every record
NextRecords == ResetNext(Reliable) \/ RecordsNext(RecordIDs, Reliable)
SpecRecords == Init /\ [][NextRecords]_vars

\* the values table alone, every record
NextValues == ResetNext(Reliable) \/ ValuesNext(RecordIDs, Reliable)
SpecValues == Init /\ [][NextValues]_vars

\* the keys table alone, every key group
NextKeys == ResetNext(Reliable) \/ KeysNext(KeyGroupIDs, Reliable)
SpecKeys == Init /\ [][NextKeys]_vars

\* the values table on two records with the keys table on one key group,
\* over an engine that may fail any put, delete or get
StoreIDs == {0, 1}
NextStore ==
    \/ ResetNext(Reliable)
    \/ ValuesNext(StoreIDs, Failing)
    \/ KeysNext({0}, Failing)
SpecStore == Init /\ [][NextStore]_vars

\* the rec_data table on every record with the keys table on one key group,
\* over an engine that may fail any put, delete or get
NextLookup ==
    \/ ResetNext(Reliable)
    \/ RecordsNext(RecordIDs, Failing)
    \/ KeysNext({0}, Failing)
SpecLookup == Init /\ [][NextLookup]_vars

\* the merge operator as the engine applies it to one key
NextMerge ==
    \/ \E k \in MergeIDs : EngineMergeCf(k)
    \/ \E from, to \in 1..Len(merge_entry.operands) : EnginePartialMerge(from, to)
    \/ \E n \in 1..Len(merge_entry.operands) : EngineFullMerge(n)
SpecMerge == Init /\ [][NextMerge]_vars

\* the probe on a dense table 0..N-1, from any starting hint
DenseTable(n) == [record_id \in 0..(n - 1) |-> SerializeVecVarint(<<0>>)]

InitProbe ==
    /\ cfs = AllCFs
    /\ keys = EmptyTable
    /\ \E n \in 0..USIZE_MAX : rec_data = DenseTable(n)
    /\ values = EmptyTable
    /\ variants = EmptyTable
    /\ last = Call("new", 0, {}, Ok, <<>>)
    /\ \E starting_hint \in 0..USIZE_MAX : probe = ProbeEntry(starting_hint)
    /\ merge_entry = MergeEntryInit

ProbeStep ==
    /\ probe.pc = "loop"
    /\ probe' = ProbePass(rec_data, probe)
    /\ UNCHANGED <<cfs, keys, rec_data, values, variants, last, merge_entry>>

SpecProbe == InitProbe /\ [][ProbeStep]_vars

\* the probe as a running call: the loop goes on until it returns
SpecProbeRuns == SpecProbe /\ WF_vars(ProbeStep)

----------------------------------------------------------------------------
(* Properties *)

\* the key groups the entry of fingerprint f references in `table`
Refs(table, f) == IF f \in DOMAIN table THEN DeserializeSetFixint(table[f]) ELSE {}

RefsOf(table) == [f \in Fingerprints |-> Refs(table, f)]

\* the number of records of a dense rec_data table
N == Cardinality(DOMAIN rec_data)

\* C1: on a rec_data table holding exactly the keys 0..N-1, the probe returns
\* N from every starting hint, and record_count() (hint 255) returns N.
C1_ProbeReturnsN ==
    /\ DOMAIN rec_data = 0..(N - 1)
    /\ probe.pc = "done" => probe.result = Some(N)
    /\ record_count_result(FALSE) = Call("record_count", 0, {}, Ok, <<N>>)

C1_Witness ==
    /\ probe.pc = "done"
    /\ probe.starting_hint = 3
    /\ N = 200
    /\ probe.result = Some(200)
    /\ probe.lookups > 8

\* C2: whatever way the engine groups the calls of variant_append_merge on
\* the operands merged into an empty entry (partial merges of operands, full
\* merges of the stored value with some operands, the read itself), a read
\* returns exactly the set of key groups merged, each once; and each call
\* returns the union of the existing value and its operands.
C2_MergeIsSetUnion ==
    /\ \A r \in MergeEntryRead :
          IF merge_entry.merged = {} THEN r = None
          ELSE /\ r # None
               /\ DeserializeSetFixint(r[1]) = merge_entry.merged
               /\ bincode_vec_fixint_len(r[1]) = Cardinality(merge_entry.merged)
               /\ Len(r[1]) = 8 * (1 + Cardinality(merge_entry.merged))
    /\ \A n \in 0..Len(merge_entry.operands) :
          \A result \in variant_append_merge(merge_entry.existing,
                                             SubSeq(merge_entry.operands, 1, n)) :
              SeqToSet(DeserializeVecFixint(result)) =
                  (IF merge_entry.existing = None THEN {}
                   ELSE SeqToSet(DeserializeVecFixint(merge_entry.existing[1])))
                  \cup UNION {SeqToSet(DeserializeVecFixint(merge_entry.operands[i])) :
                                 i \in 1..n}

\* {A} was folded into the stored value, {B} and {A} are pending
C2_Witness ==
    /\ merge_entry.existing = Some(new_variant_vec(0))
    /\ merge_entry.operands = <<new_variant_vec(1), new_variant_vec(0)>>
    /\ merge_entry.merged = {0, 1}

\* C3: every entry present in the variants table references at least one
\* key group: none is stored empty.
C3_NoEmptyVariantEntry ==
    \A f \in DOMAIN variants :
        /\ bincode_vec_fixint_len(variants[f]) >= 1
        /\ Refs(variants, f) # {}

\* a delete has deleted the entry of one fingerprint and rewritten another's
C3_Witness ==
    /\ last.op = "delete_variant_references"
    /\ last.result = Ok
    /\ last.ret[1] # {}
    /\ \E f \in last.ret[2] : Cardinality(Refs(variants, f)) = 1

\* C4: no stored variant entry holds the same KeyGroupID twice.
C4_NoDuplicateRefs ==
    \A f \in DOMAIN variants :
        /\ Cardinality(Refs(variants, f)) = bincode_vec_fixint_len(variants[f])
        /\ Len(variants[f]) = 8 * (1 + bincode_vec_fixint_len(variants[f]))

\* a put has merged a key group into an entry that referenced it and another
C4_Witness ==
    /\ last.op = "put_variant_references"
    /\ last.result = Ok
    /\ \E f \in last.ret[2] :
          /\ Refs(variants, f) = {0, 1}
          /\ bincode_vec_fixint_len(variants[f]) = 2

\* C5: after delete_variant_references(K, F) returns success no entry of a
\* fingerprint in F references K: an entry that referenced K and others
\* references the others, an entry that referenced only K is gone, and
\* visit_exact_variant / visit_variants on it do not call the visitor.
C5_DeleteRemovesReference ==
    [][ \A K \in KeyGroupIDs, F \in SUBSET Fingerprints :
        (/\ last'.op = "delete_variant_references" /\ last'.result = Ok
         /\ last'.id = K /\ last'.arg = F) =>
        \A f \in F :
            /\ K \notin Refs(variants', f)
            /\ (K \in Refs(variants, f) /\ Refs(variants, f) # {K})
                   => Refs(variants', f) = Refs(variants, f) \ {K}
            /\ Refs(variants, f) = {K} =>
                   /\ f \notin DOMAIN variants'
                   /\ visit_exact_variant_result(f, FALSE)'.ret = None
                   /\ f \notin DOMAIN visit_variants_result(F, F)'.ret
      ]_vars

\* a delete of key group 0 has rewritten one entry to {1} and deleted another
C5_Witness ==
    /\ last.op = "delete_variant_references"
    /\ last.result = Ok
    /\ last.id = 0
    /\ \E f \in last.ret[2] : Refs(variants, f) = {1}
    /\ \E f \in last.ret[1] : visit_exact_variant_result(f, FALSE).ret = None

\* C6: delete_variant_references(K, F) removes only references to K: every
\* other key group is referenced by an entry after the call exactly when it
\* was before, and the entries of fingerprints outside F are unchanged.
C6_DeleteRemovesOnlyK ==
    [][ (last'.op = "delete_variant_references" /\ last'.result = Ok) =>
        \A f \in Fingerprints :
            /\ Refs(variants', f) \ {last'.id} = Refs(variants, f) \ {last'.id}
            /\ f \notin last'.arg => get_pinned_cf(variants', f) = get_pinned_cf(variants, f)
      ]_vars

\* C7: put_variant_references(K, F) sets the entry of every fingerprint in F
\* to its previous set with K added and leaves every other entry as it was;
\* repeating the call changes no set, and two calls give the same sets in
\* either order.  The two orders are run through the loop itself wherever the
\* table and the two calls name at most two key groups; for every table, each
\* call's results decode to the union, of which the orders agree.
C7_PutAddsReference ==
    /\ [][ (last'.op = "put_variant_references" /\ last'.result = Ok) =>
           \A f \in Fingerprints :
               IF f \in last'.arg
               THEN Refs(variants', f) = Refs(variants, f) \cup {last'.id}
               ELSE get_pinned_cf(variants', f) = get_pinned_cf(variants, f)
         ]_vars
    /\ [][ (/\ last.op = "put_variant_references" /\ last.result = Ok
            /\ last'.op = last.op /\ last'.result = Ok
            /\ last'.id = last.id /\ last'.arg = last.arg) =>
           RefsOf(variants') = RefsOf(variants) ]_vars
    /\ [] \A k1 \in KeyGroupIDs, F1 \in SUBSET Fingerprints :
           LET then(tables, k, F) ==
                   UNION {put_variant_references_loop(t, k, F) : t \in tables}
               added(R, k, F) ==
                   [f \in Fingerprints |-> IF f \in F THEN R[f] \cup {k} ELSE R[f]]
               R0 == RefsOf(variants)
               once == then({variants}, k1, F1)
               named == UNION {R0[f] : f \in Fingerprints} \cup {k1}
           IN  /\ \A t \in once : RefsOf(t) = added(R0, k1, F1)
               /\ added(added(R0, k1, F1), k1, F1) = added(R0, k1, F1)
               /\ \A k2 \in KeyGroupIDs, F2 \in SUBSET Fingerprints :
                      /\ added(added(R0, k1, F1), k2, F2)
                         = added(added(R0, k2, F2), k1, F1)
                      /\ Cardinality(named \cup {k2}) <= 2 =>
                             {RefsOf(t) : t \in then(once, k2, F2)}
                             = {RefsOf(t) : t \in then(then({variants}, k2, F2), k1, F1)}
               /\ Cardinality(named) <= 2 =>
                      {RefsOf(t) : t \in then(once, k1, F1)} = {RefsOf(t) : t \in once}

\* key group 1 was put on two fingerprints: one had no entry, one referenced 0
C7_Witness ==
    /\ last.op = "put_variant_references"
    /\ last.result = Ok
    /\ last.id = 1
    /\ last.arg = {1, 2}
    /\ \E f \in last.ret[1] : Refs(variants, f) = {1}
    /\ \E f \in last.ret[2] : Refs(variants, f) = {0, 1}

\* C8 as stated: after put_key_group_entry(id, S), get_keys_in_group(id)
\* succeeds and yields exactly the elements of S, for every S.
C8_RoundTripAnySet ==
    (last.op = "put_key_group_entry" /\ last.result = Ok) =>
        LET got == get_keys_in_group_result(last.id, FALSE)
        IN  got.result = Ok /\ SeqToSet(got.ret) = last.arg

\* C8 amended: after put_key_group_entry(id, S) with S not empty,
\* get_keys_in_group(id) succeeds and yields exactly the elements of S, each
\* once; with S empty it returns Err("Invalid record_id").
C8_RoundTripNonEmptySet ==
    (last.op = "put_key_group_entry" /\ last.result = Ok) =>
        LET got == get_keys_in_group_result(last.id, FALSE)
        IN  IF last.arg # {}
            THEN /\ got.result = Ok
                 /\ SeqToSet(got.ret) = last.arg
                 /\ Len(got.ret) = Cardinality(last.arg)
            ELSE got.result = InvalidRecordId /\ got.ret = <<>>

C8_Witness ==
    /\ last.op = "put_key_group_entry"
    /\ last.result = Ok
    /\ last.arg = {1, 2}
    /\ get_keys_in_group_result(last.id, FALSE).result = Ok

\* C9: for every id with an entry in the keys table keys_count_in_group(id)
\* returns the number of keys get_keys_in_group(id) yields (none, with an
\* error, for an entry holding the empty set, whose count is 0).
C9_CountMatchesKeys ==
    \A id \in DOMAIN keys :
        LET count == keys_count_in_group_result(id, FALSE)
            got   == get_keys_in_group_result(id, FALSE)
        IN  /\ count.result = Ok
            /\ count.ret = <<Len(got.ret)>>
            /\ got.result = Ok \/ count.ret = <<0>>

C9_Witness ==
    /\ last.op = "keys_count_in_group"
    /\ last.result = Ok
    /\ last.ret = <<2>>
    /\ get_keys_in_group_result(last.id, FALSE).result = Ok
    /\ \E id \in DOMAIN keys : keys_count_in_group_result(id, FALSE).ret = <<0>>

\* C10: after reset_database() returns success the four tables are empty
\* and the next record_count() returns 0.
C10_ResetEmptiesTables ==
    (last.op = "reset_database" /\ last.result = Ok) =>
        /\ cfs = AllCFs
        /\ keys = EmptyTable
        /\ rec_data = EmptyTable
        /\ values = EmptyTable
        /\ variants = EmptyTable
        /\ record_count_result(FALSE) = Call("record_count", 0, {}, Ok, <<0>>)

\* a reset has erased an entry of each of the four tables
C10_Witness ==
    /\ last.op = "reset_database"
    /\ last.result = Ok
    /\ last.ret = <<4>>
    /\ DOMAIN keys = {} /\ DOMAIN rec_data = {} /\ DOMAIN values = {} /\ DOMAIN variants = {}

\* C11: a put or delete changes only its own table: put_record_key_groups
\* only rec_data, put_key_group_entry / delete_key_group_entry only keys,
\* put_value / delete_value only values, put_variant_references /
\* delete_variant_references only variants; so none of the calls on key
\* groups, values or variant references changes what record_count() returns.
C11_FrameByTable ==
    [][ /\ last'.op = "put_record_key_groups" =>
               UNCHANGED <<cfs, keys, values, variants>>
        /\ last'.op \in {"put_key_group_entry", "delete_key_group_entry"} =>
               UNCHANGED <<cfs, rec_data, values, variants>>
        /\ last'.op \in {"put_value", "delete_value"} =>
               UNCHANGED <<cfs, keys, rec_data, variants>>
        /\ last'.op \in {"put_variant_references", "delete_variant_references"} =>
               UNCHANGED <<cfs, keys, rec_data, values>>
        /\ last'.op \in {"put_key_group_entry", "delete_key_group_entry",
                         "put_value", "delete_value",
                         "put_variant_references", "delete_variant_references"} =>
               /\ (RECORD_DATA_CF_NAME \in cfs') = (RECORD_DATA_CF_NAME \in cfs)
               /\ probe_for_max_sequential_key(rec_data', 255)
                  = probe_for_max_sequential_key(rec_data, 255)
      ]_vars

\* record 0 is stored, its key group entry is gone and the delete of its
\* variant references has just removed an entry: record_count() is still 1
C11_Witness ==
    /\ last.op = "delete_variant_references"
    /\ last.result = Ok
    /\ last.ret[1] # {}
    /\ DOMAIN keys = {}
    /\ DOMAIN values = {0}
    /\ DOMAIN rec_data = {0}
    /\ record_count_result(FALSE).ret = <<1>>

\* C12 as stated: get_value(r) returns the value of the most recent
\* put_value(r, .) that no delete_value(r) or reset_database followed, and an
\* error otherwise; the same for get_keys_in_group(id) and the set of the most
\* recent put_key_group_entry(id, .).  Step by step: a put makes the get
\* return what was put, a delete or reset makes it return the error, and any
\* other call (a failed one too) leaves what the get returns as it was.
C12_LastWriteWins ==
    /\ [] (last.op = "new" =>
              \A id \in StoreIDs :
                  /\ get_value_result(id, FALSE).result = InvalidRecordId
                  /\ get_keys_in_group_result(id, FALSE).result = InvalidRecordId)
    /\ [][ \A id \in StoreIDs :
            /\ IF last'.op = "put_value" /\ last'.result = Ok /\ last'.id = id
               THEN /\ get_value_result(id, FALSE)'.result = Ok
                    /\ {get_value_result(id, FALSE)'.ret[1]} = last'.arg
               ELSE IF \/ last'.op = "delete_value" /\ last'.result = Ok /\ last'.id = id
                       \/ last'.op = "reset_database" /\ last'.result = Ok
               THEN get_value_result(id, FALSE)'.result = InvalidRecordId
               ELSE get_value_result(id, FALSE)' = get_value_result(id, FALSE)
            /\ IF last'.op = "put_key_group_entry" /\ last'.result = Ok /\ last'.id = id
               THEN /\ get_keys_in_group_result(id, FALSE)'.result = Ok
                    /\ SeqToSet(get_keys_in_group_result(id, FALSE)'.ret) = last'.arg
               ELSE IF \/ /\ last'.op = "delete_key_group_entry"
                          /\ last'.result = Ok /\ last'.id = id
                       \/ last'.op = "reset_database" /\ last'.result = Ok
               THEN get_keys_in_group_result(id, FALSE)'.result = InvalidRecordId
               ELSE SeqToSet(get_keys_in_group_result(id, FALSE)'.ret)
                    = SeqToSet(get_keys_in_group_result(id, FALSE).ret)
                    /\ get_keys_in_group_result(id, FALSE)'.result
                       = get_keys_in_group_result(id, FALSE).result
      ]_vars

\* C12 amended: as C12, but a put_key_group_entry(id, S) with S empty makes
\* get_keys_in_group(id) return Err("Invalid record_id"), as a delete does.
C12_LastWriteWinsNonEmpty ==
    /\ [] (last.op = "new" =>
              \A id \in StoreIDs :
                  /\ get_value_result(id, FALSE).result = InvalidRecordId
                  /\ get_keys_in_group_result(id, FALSE).result = InvalidRecordId)
    /\ [][ \A id \in StoreIDs :
            /\ IF last'.op = "put_value" /\ last'.result = Ok /\ last'.id = id
               THEN /\ get_value_result(id, FALSE)'.result = Ok
                    /\ {get_value_result(id, FALSE)'.ret[1]} = last'.arg
               ELSE IF \/ last'.op = "delete_value" /\ last'.result = Ok /\ last'.id = id
                       \/ last'.op = "reset_database" /\ last'.result = Ok
               THEN get_value_result(id, FALSE)'.result = InvalidRecordId
               ELSE get_value_result(id, FALSE)' = get_value_result(id, FALSE)
            /\ IF /\ last'.op = "put_key_group_entry" /\ last'.result = Ok
                  /\ last'.id = id /\ last'.arg # {}
               THEN /\ get_keys_in_group_result(id, FALSE)'.result = Ok
                    /\ SeqToSet(get_keys_in_group_result(id, FALSE)'.ret) = last'.arg
                    /\ Len(get_keys_in_group_result(id, FALSE)'.ret) = Cardinality(last'.arg)
               ELSE IF \/ /\ last'.op \in {"delete_key_group_entry", "put_key_group_entry"}
                          /\ last'.result = Ok /\ last'.id = id
                       \/ last'.op = "reset_database" /\ last'.result = Ok
               THEN get_keys_in_group_result(id, FALSE)'.result = InvalidRecordId
               ELSE SeqToSet(get_keys_in_group_result(id, FALSE)'.ret)
                    = SeqToSet(get_keys_in_group_result(id, FALSE).ret)
                    /\ get_keys_in_group_result(id, FALSE)'.result
                       = get_keys_in_group_result(id, FALSE).result
      ]_vars

\* put_value(0, 2) has overwritten the value 1, and a key group entry that
\* was put over another is read back
C12_Witness ==
    /\ last.op = "put_value"
    /\ last.result = Ok
    /\ last.id = 0
    /\ last.arg = {2}
    /\ last.ret = Some(<<1>>)
    /\ get_value_result(0, FALSE).ret = <<2>>
    /\ get_value_result(1, FALSE).result = InvalidRecordId
    /\ get_keys_in_group_result(0, FALSE).result = Ok
    /\ get_keys_in_group_result(1, FALSE).result = InvalidRecordId

\* C13: get_record_key_groups(r) returns Err exactly when rec_data has no
\* entry for r or the stored group-index list is empty, and otherwise yields
\* in stored order the KeyGroupID of (r, index) for each index that was put;
\* get_keys_in_group(id) returns Err exactly when the keys entry is absent or
\* holds no key; neither call changes a table, whatever it returns.
C13_GetErrors ==
    /\ [] \A r \in RecordIDs :
             LET got == get_record_key_groups_result(r, FALSE)
             IN  /\ got.result \in {Ok, InvalidRecordId}
                 /\ got.result = InvalidRecordId <=>
                        \/ r \notin DOMAIN rec_data
                        \/ bincode_u64_le_varint(rec_data[r]) = 0
    /\ [] LET got == get_keys_in_group_result(0, FALSE)
          IN  /\ got.result \in {Ok, InvalidRecordId}
              /\ got.result = InvalidRecordId <=>
                     \/ 0 \notin DOMAIN keys
                     \/ bincode_u64_le_varint(keys[0]) = 0
    /\ [][ /\ \A r \in RecordIDs, v \in GroupVecs :
               (/\ last'.op = "put_record_key_groups" /\ last'.result = Ok
                /\ last'.id = r /\ last'.arg = v) =>
               IF v = <<>>
               THEN get_record_key_groups_result(r, FALSE)'.result = InvalidRecordId
               ELSE /\ get_record_key_groups_result(r, FALSE)'.result = Ok
                    /\ get_record_key_groups_result(r, FALSE)'.ret
                       = [i \in DOMAIN v |-> from_record_and_idx(r, v[i])]
           /\ (last'.op = "get_record_key_groups" /\ last'.result # EngineError) =>
               last' = get_record_key_groups_result(last'.id, FALSE)
           /\ (last'.op = "get_keys_in_group" /\ last'.result # EngineError) =>
               last' = get_keys_in_group_result(last'.id, FALSE)
           /\ last'.op \in {"get_record_key_groups", "get_keys_in_group"} =>
               UNCHANGED <<cfs, keys, rec_data, values, variants>>
      ]_vars

\* get_record_key_groups(1) has yielded the ids of the stored indices 0 and
\* 1; record 0 holds an empty list, record 2 has no entry, and the keys entry
\* of key group 0 holds the empty set: all three are errors
C13_Witness ==
    /\ last.op = "get_record_key_groups"
    /\ last.result = Ok
    /\ last.id = 1
    /\ last.ret = <<from_record_and_idx(1, 0), from_record_and_idx(1, 1)>>
    /\ 0 \in DOMAIN rec_data
    /\ get_record_key_groups_result(0, FALSE).result = InvalidRecordId
    /\ 2 \notin DOMAIN rec_data
    /\ get_record_key_groups_result(2, FALSE).result = InvalidRecordId
    /\ 0 \in DOMAIN keys
    /\ get_keys_in_group_result(0, FALSE).result = InvalidRecordId

\* C14: keys_count_in_group(id) on an id with no entry in the keys table
\* panics: it returns neither an error value nor a count; on every id with an
\* entry it returns a count, the number of keys last put there.
C14_CountPanicsOnAbsent ==
    /\ [] \A id \in KeyGroupIDs :
             LET count == keys_count_in_group_result(id, FALSE)
             IN  IF id \in DOMAIN keys
                 THEN count.result = Ok /\ Len(count.ret) = 1 /\ count.ret[1] \in Nat
                 ELSE count.result = Panic /\ count.ret = <<>>
    /\ [] (last.op = "keys_count_in_group" =>
              /\ last.result \in {Ok, Panic}
              /\ last.result = Panic <=> last.id \notin DOMAIN keys)
    /\ [][ \A id \in KeyGroupIDs, S \in SUBSET RawKeys :
            (/\ last'.op = "put_key_group_entry" /\ last'.result = Ok
             /\ last'.id = id /\ last'.arg = S) =>
            keys_count_in_group_result(id, FALSE)'.ret = <<Cardinality(S)>>
      ]_vars

\* the call has panicked on key group 1, which has no entry, while key
\* group 0 has one and gets a count
C14_Witness ==
    /\ last.op = "keys_count_in_group"
    /\ last.id = 1
    /\ last.result = Panic
    /\ 1 \notin DOMAIN keys
    /\ 0 \in DOMAIN keys
    /\ keys_count_in_group_result(0, FALSE).result = Ok

C16_ProbeBrackets ==
    probe.pc = "loop" =>
        /\ probe.min <= N /\ N <= probe.max
        /\ probe.min <= probe.guess_max /\ probe.guess_max <= probe.max
        /\ (probe.lookups > 0 /\ probe.min < probe.max) =>
               /\ probe.cur_val = probe.min + (probe.guess_max - probe.min) \div 2
               /\ probe.min <= probe.cur_val
               /\ probe.cur_val < probe.max

\* a loop head in the growth phase (guess_max below max) after two hits
C16_Witness ==
    /\ probe.pc = "loop"
    /\ N = 200
    /\ probe.lookups = 2
    /\ probe.min > 0
    /\ probe.min < probe.guess_max
    /\ probe.guess_max < probe.max

\* C17: on a dense table the probe does at most one table lookup per bit of
\* the key width (at most 64 for 64-bit keys), for every N and every
\* starting hint.
C17_AtMostWLookups == probe.lookups <= UsizeBits

\* C18: when the engine fails at one fingerprint, put_variant_references and
\* delete_variant_references return the error at once: the fingerprints the
\* loop got through keep their change (K merged in, or what the complete
\* call would have left), the others, and those outside F, are unchanged.
C18_NoRollback ==
    [][ \A K \in KeyGroupIDs, F \in SUBSET Fingerprints :
        (/\ last'.op \in {"put_variant_references", "delete_variant_references"}
         /\ last'.result = EngineError /\ last'.id = K /\ last'.arg = F) =>
        /\ last'.ret[3] \subseteq F /\ last'.ret[3] # F
        /\ \A f \in Fingerprints \ last'.ret[3] :
               get_pinned_cf(variants', f) = get_pinned_cf(variants, f)
        /\ \A f \in last'.ret[3] :
               IF last'.op = "put_variant_references"
               THEN Refs(variants', f) = Refs(variants, f) \cup {K}
               ELSE get_pinned_cf(variants', f)
                    = get_pinned_cf(delete_variant_references_loop(variants, K, F), f)
      ]_vars

\* put_variant_references(1, {1, 2}) has failed after one fingerprint: its
\* new entry {1} is kept and the other fingerprint has no entry
C18_Witness ==
    /\ last.op = "put_variant_references"
    /\ last.result = EngineError
    /\ last.id = 1
    /\ last.arg = {1, 2}
    /\ Cardinality(last.ret[3]) = 1
    /\ last.ret[1] = last.ret[3]
    /\ \A f \in last.ret[3] : Refs(variants, f) = {1}
    /\ \A f \in last.arg \ last.ret[3] : f \notin DOMAIN variants

\* C19: with callers that write RecordIDs in order, after any interleaving
\* of the operations the rec_data keys are exactly 0..N-1 and record_count()
\* returns N; no operation other than reset_database removes a rec_data
\* entry, and record_count() never decreases between resets.
C19_DensityPreserved ==
    /\ [] /\ DOMAIN rec_data = 0..(N - 1)
          /\ RECORD_DATA_CF_NAME \in cfs =>
                 record_count_result(FALSE) = Call("record_count", 0, {}, Ok, <<N>>)
    /\ [][ last'.op # "reset_database" =>
            /\ DOMAIN rec_data \subseteq DOMAIN rec_data'
            /\ \/ rec_data' = rec_data
               \/ probe_for_max_sequential_key(rec_data', 255)
                  >= probe_for_max_sequential_key(rec_data, 255)
      ]_vars

\* three records are stored, record 0 has just been rewritten with an empty
\* list, and the other tables have been written and emptied again
C19_Witness ==
    /\ last.op = "put_record_key_groups"
    /\ last.result = Ok
    /\ last.id = 0
    /\ last.arg = <<>>
    /\ DOMAIN rec_data = {0, 1, 2}
    /\ record_count_result(FALSE).ret = <<3>>
    /\ DOMAIN keys = {0}
    /\ DOMAIN values = {}
    /\ DOMAIN variants = {1}

\* C20: on a dense table with N below the maximum key value the arithmetic
\* of the probe stays within usize for every starting hint: neither
\* starting_hint * starting_hint, guess_max * 2 nor cur_val + 1 exceeds
\* usize::MAX, and guess_max - min is never negative.
C20_NoOverflow ==
    N < USIZE_MAX =>
        /\ ~probe.overflow
        /\ Fits(guess_max_seed(probe.starting_hint))
        /\ probe.pc = "loop" =>
               /\ Fits(probe.guess_max - probe.min)
               /\ ProbeLookup(rec_data, probe.cur_val) =>
                      /\ Fits(probe.cur_val + 1)
                      /\ Fits(grow_guess_max(probe.guess_max, probe.max))

\* the probe has returned from the largest hint that is squared, on the
\* largest table of the claim
C20_Witness ==
    /\ probe.pc = "done"
    /\ probe.starting_hint = HALF_MASK
    /\ N = USIZE_MAX - 1
    /\ probe.result = Some(N)
    /\ probe.lookups > 3
    /\ ~probe.overflow

====
